---- MODULE Spec2Model ----
(***************************************************************************)
(* Battleship: the board/state model (board.py) and the targeting engine   *)
(* (ai.py).  Coordinates are 0-based (row, col) pairs as in the source.    *)
(* A Python Optional[int] is modelled as a set: {} is None, {x} is x.      *)
(***************************************************************************)
EXTENDS Integers, Sequences, FiniteSets, TLC

VARIABLES
    board,      \* a Board object
    reports,    \* history: per ship of board, the sunk lengths receive_shot returned for it
    ai,         \* a BattleshipAI object
    known,      \* the knowledge grid handed to the engine
    call,       \* the last call: its name and arguments
    ret,        \* what the last call returned
    game        \* the Game object of main.py, in the game specification

vars == <<board, reports, ai, known, call, ret, game>>

-----------------------------------------------------------------------------
(* Cell states, board.py:10-13; the attacker's "unknown", board.py:144.    *)
EMPTY == 0
SHIP == 1
HIT == 2
MISS == 3
UNKNOWN == 0 - 1

None == {}
Some(x) == {x}
Val(o) == CHOOSE x \in o : TRUE

(* constants.py *)
GRID_SIZE == 10
STANDARD_SHIPS == <<5, 4, 3, 3, 2>>

-----------------------------------------------------------------------------
(* Bounds of the model.                                                    *)
BoardSize == 2      \* side of the boards of the board specification
AiSize == 3         \* side of the knowledge grids of the targeting specification
MaxShips == 2       \* place_ship is not called on a board holding MaxShips ships,
                    \* and random_place_all gets at most MaxShips lengths
MaxHit == 4         \* a knowledge grid with a HIT cell has at most MaxHit of them,
MaxMiss == 1        \* and either at most MaxMiss MISS cells (few shots missed)
MaxUnknown == 1     \* or at most MaxUnknown UNKNOWN cells (few cells left)
TargetSize == 4     \* side of the wider grids _target_candidates is applied to,
MaxTargetHit == 3   \* which hold at most MaxTargetHit HIT cells
MaxTargetMiss == 1  \* and at most MaxTargetMiss MISS cells
MaxListLen == 3     \* entries of a remaining-ships list handed to notify_sunk runs
MaxLength == 3      \* largest ship length in those lists
MaxNotify == 3      \* notifications in one run
MaxFleet == 3       \* lengths in a list handed to random_place_all in the placement specification
GameSize == 2       \* side of the two boards of the game specification (for GRID_SIZE)
AiDelay == 2        \* ai_move_cooldown set before an AI move (for the 350 ms)
MaxDt == 2          \* longest frame time dt handed to update

-----------------------------------------------------------------------------
(* Generic helpers.                                                        *)
Range(s) == {s[i] : i \in DOMAIN s}

Cells(n) == {<<r, c>> : r \in 0 .. n - 1, c \in 0 .. n - 1}

\* TLC evaluates definitions and functions on demand, once per use.  Strict
\* evaluates x before e, so that e finds its value computed; Tabulate(f) is
\* f as an explicit table.  Neither changes a value.
\* The element of a one-element set.  A value bound over a set is computed
\* once, also where TLC evaluates ENABLED.
The(S) == CHOOSE x \in S : TRUE

Strict(x, e) == IF x = x THEN e ELSE e
Tabulate(f) == f @@ f

-----------------------------------------------------------------------------
(* board.py: Ship and Board.                                               *)

\* Ship(length=length, cells=cells), hits defaults to 0
NewShip(length, cells) == [length |-> length, cells |-> cells, hits |-> 0]

\* Faulty variant of sunk: off by one in the comparison.
sunk_early(ship) == ship.hits >= ship.length - 1

\* Ship.sunk
sunk(ship) == ship.hits >= ship.length

\* Board.__init__
NewBoard(n) ==
    [size |-> n,
     grid |-> [p \in Cells(n) |-> EMPTY],
     ships |-> <<>>,
     total_ship_cells |-> 0]

in_bounds(b, r, c) == 0 <= r /\ r < b.size /\ 0 <= c /\ c < b.size

\* The i-th cell of the region (r, c, length, horizontal), as both
\* can_place and place_ship compute it.
RegionCell(r, c, i, horizontal) ==
    <<r + (IF horizontal THEN 0 ELSE i), c + (IF horizontal THEN i ELSE 0)>>

\* Faulty variant of can_place: the cells' contents are not looked at.
can_place_bounds_only(b, r, c, length, horizontal) ==
    \A i \in 0 .. length - 1 :
        LET p == RegionCell(r, c, i, horizontal)
        IN  in_bounds(b, p[1], p[2])

\* The loop returns False at the first cell out of bounds or not EMPTY.
can_place(b, r, c, length, horizontal) ==
    \A i \in 0 .. length - 1 :
        LET p == RegionCell(r, c, i, horizontal)
        IN  /\ in_bounds(b, p[1], p[2])
            /\ b.grid[p] = EMPTY

\* Faulty variant of place_ship: total_ship_cells is added to before the
\* can_place test.
place_ship_counts_first(b, r, c, length, horizontal) ==
    LET b1 == [b EXCEPT !.total_ship_cells = b.total_ship_cells + length]
    IN  IF ~can_place(b, r, c, length, horizontal)
        THEN [board |-> b1, ok |-> FALSE]
        ELSE LET cells == [i \in 1 .. length |-> RegionCell(r, c, i - 1, horizontal)]
             IN  [board |->
                    [b1 EXCEPT
                       !.grid = [p \in DOMAIN b.grid |->
                                   IF p \in Range(cells) THEN SHIP ELSE b.grid[p]],
                       !.ships = Append(b.ships, NewShip(length, cells))],
                  ok |-> TRUE]

\* Returns the board after the call and the returned flag.
place_ship(b, r, c, length, horizontal) ==
    IF ~can_place(b, r, c, length, horizontal)
    THEN [board |-> b, ok |-> FALSE]
    ELSE LET cells == [i \in 1 .. length |-> RegionCell(r, c, i - 1, horizontal)]
         IN  [board |->
                [b EXCEPT
                   !.grid = [p \in DOMAIN b.grid |->
                               IF p \in Range(cells) THEN SHIP ELSE b.grid[p]],
                   !.ships = Append(b.ships, NewShip(length, cells)),
                   !.total_ship_cells = b.total_ship_cells + length],
              ok |-> TRUE]

\* The randomized attempts of random_place_all for one length (the while
\* loop, board.py:71-80): the draws are (horizontal, r, c) with the origin in
\* the ranges of randrange.
RandomDraws(b, length) ==
    {<<TRUE, r, c>> : r \in 0 .. b.size - 1, c \in 0 .. b.size - length}
        \cup {<<FALSE, r, c>> : r \in 0 .. b.size - length, c \in 0 .. b.size - 1}

\* The deterministic fallback scan (board.py:83-89): the first origin in
\* row-major order at which the horizontal placement succeeds, or {}.
FallbackOrigin(b, length) ==
    LET ok == {p \in (0 .. b.size - 1) \X (0 .. b.size - length) :
                  can_place(b, p[1], p[2], length, TRUE)}
    IN  IF ok = {} THEN {}
        ELSE {CHOOSE p \in ok :
                \A q \in ok : p[1] < q[1] \/ (p[1] = q[1] /\ p[2] <= q[2])}

\* The outcomes of the loop `for length in ships` from position i on: the
\* board it leaves and the exception it raised ("none" when it returned).
\* randrange(n) with n <= 0 raises ValueError.  Each of the 1000 draws is
\* independent, so all of them fail in some run iff some draw can fail.
RECURSIVE rpa_loop(_, _, _)
rpa_loop(b, lens, i) ==
    IF i > Len(lens) THEN {[board |-> b, err |-> "none"]}
    ELSE LET length == lens[i]
         IN  IF b.size - length + 1 <= 0
             THEN {[board |-> b, err |-> "ValueError"]}
             ELSE LET draws == RandomDraws(b, length)
                      good  == {t \in draws : can_place(b, t[2], t[3], length, t[1])}
                      byDraw == UNION {rpa_loop(place_ship(b, t[2], t[3], length, t[1]).board,
                                                lens, i + 1) : t \in good}
                      fb == FallbackOrigin(b, length)
                      byFallback ==
                          IF draws \ good = {} THEN {}
                          ELSE IF fb = {} THEN {[board |-> b, err |-> "RuntimeError"]}
                          ELSE UNION {rpa_loop(place_ship(b, p[1], p[2], length, TRUE).board,
                                               lens, i + 1) : p \in fb}
                  IN  byDraw \cup byFallback

\* Faulty variant of random_place_all: the grid is reset, the ships and
\* total_ship_cells are not.
random_place_all_keeps_ships(b, ships) ==
    LET lens == IF ships = None THEN STANDARD_SHIPS ELSE Val(ships)
    IN  rpa_loop([b EXCEPT !.grid = [p \in Cells(b.size) |-> EMPTY]], lens, 1)

\* ships is None or Some(list of lengths); the seed only selects among the
\* draws.
random_place_all(b, ships) ==
    LET lens == IF ships = None THEN STANDARD_SHIPS ELSE Val(ships)
    IN  rpa_loop(NewBoard(b.size), lens, 1)

\* Faulty variant of all_ships_sunk: without the test for an empty ship list.
all_ships_sunk_vacuous(b) ==
    \A i \in DOMAIN b.ships : sunk(b.ships[i])

all_ships_sunk(b) ==
    (\A i \in DOMAIN b.ships : sunk(b.ships[i])) /\ Len(b.ships) > 0

\* Index of the first ship whose cells hold (r, c): the loop breaks there.
\* 0 when no ship holds the cell.
FirstShipAt(b, r, c) ==
    LET hit == {i \in DOMAIN b.ships : <<r, c>> \in Range(b.ships[i].cells)}
    IN  IF hit = {} THEN 0 ELSE CHOOSE i \in hit : \A j \in hit : i <= j

\* Faulty variant of receive_shot: without the test for a cell already shot.
receive_shot_unguarded(b, r, c) ==
    IF ~in_bounds(b, r, c)
    THEN [board |-> b, hit |-> FALSE, sunk_length |-> None,
          game_over |-> all_ships_sunk(b)]
    ELSE IF b.grid[<<r, c>>] = SHIP
    THEN LET k  == FirstShipAt(b, r, c)
             s2 == IF k = 0 THEN b.ships
                   ELSE [b.ships EXCEPT ![k].hits = b.ships[k].hits + 1]
             b2 == [b EXCEPT !.grid = [b.grid EXCEPT ![<<r, c>>] = HIT], !.ships = s2]
         IN  [board |-> b2, hit |-> TRUE,
              sunk_length |-> IF k # 0 /\ sunk(s2[k])
                              THEN Some(s2[k].length) ELSE None,
              game_over |-> all_ships_sunk(b2)]
    ELSE LET b2 == [b EXCEPT !.grid = [b.grid EXCEPT ![<<r, c>>] = MISS]]
         IN  [board |-> b2, hit |-> FALSE, sunk_length |-> None,
              game_over |-> all_ships_sunk(b2)]

\* Returns the board after the call and (hit, sunk_length, game_over).
receive_shot(b, r, c) ==
    IF ~in_bounds(b, r, c)
    THEN [board |-> b, hit |-> FALSE, sunk_length |-> None,
          game_over |-> all_ships_sunk(b)]
    ELSE LET cell == b.grid[<<r, c>>]
         IN  IF cell = HIT \/ cell = MISS
             THEN [board |-> b, hit |-> FALSE, sunk_length |-> None,
                   game_over |-> all_ships_sunk(b)]
             ELSE IF cell = SHIP
             THEN LET k  == FirstShipAt(b, r, c)
                      g2 == [b.grid EXCEPT ![<<r, c>>] = HIT]
                      s2 == IF k = 0 THEN b.ships
                            ELSE [b.ships EXCEPT ![k].hits = b.ships[k].hits + 1]
                      b2 == [b EXCEPT !.grid = g2, !.ships = s2]
                  IN  [board |-> b2, hit |-> TRUE,
                       sunk_length |-> IF k # 0 /\ sunk(s2[k])
                                       THEN Some(s2[k].length) ELSE None,
                       game_over |-> all_ships_sunk(b2)]
             ELSE LET b2 == [b EXCEPT !.grid = [b.grid EXCEPT ![<<r, c>>] = MISS]]
                  IN  [board |-> b2, hit |-> FALSE, sunk_length |-> None,
                       game_over |-> all_ships_sunk(b2)]

is_valid_shot(b, r, c) ==
    in_bounds(b, r, c) /\ b.grid[<<r, c>>] \notin {HIT, MISS}

\* Faulty variant of get_ai_knowledge: an unhit SHIP cell is shown as HIT.
get_ai_knowledge_shows_ships(b) ==
    [p \in Cells(b.size) |->
        IF b.grid[p] = HIT \/ b.grid[p] = SHIP THEN HIT
        ELSE IF b.grid[p] = MISS THEN MISS
        ELSE UNKNOWN]

get_ai_knowledge(b) ==
    [p \in Cells(b.size) |->
        IF b.grid[p] = HIT THEN HIT
        ELSE IF b.grid[p] = MISS THEN MISS
        ELSE UNKNOWN]

-----------------------------------------------------------------------------
(* ai.py: BattleshipAI.  A knowledge grid is a function from the cells of  *)
(* the size x size grid to {UNKNOWN, HIT, MISS}; an AI object is the       *)
(* record [size, remaining_ships].                                         *)

\* _top_candidates' default k
TOP_K == 8

\* BattleshipAI.__init__: list(ships or STANDARD_SHIPS)
NewAI(n, ships) ==
    [size |-> n,
     remaining_ships |-> IF ships = None \/ Val(ships) = <<>>
                         THEN STANDARD_SHIPS ELSE Val(ships)]

\* The cells of a grid in the order of `for r ... for c ...`.
RowMajor(n) == [i \in 1 .. n * n |-> <<(i - 1) \div n, (i - 1) % n>>]

\* ((1, 0), (-1, 0), (0, 1), (0, -1))
Dirs == <<<<1, 0>>, <<0 - 1, 0>>, <<0, 1>>, <<0, 0 - 1>>>>

InGrid(n, p) == 0 <= p[1] /\ p[1] < n /\ 0 <= p[2] /\ p[2] < n

Step(p, d) == <<p[1] + d[1], p[2] + d[2]>>

_valid_placement_on_knowledge(self, knowledge, r, c, length, horizontal) ==
    \A i \in 0 .. length - 1 :
        LET p == RegionCell(r, c, i, horizontal)
        IN  /\ ~(p[1] < 0 \/ p[1] >= self.size \/ p[2] < 0 \/ p[2] >= self.size)
            /\ knowledge[p] # MISS

\* The depth-first search of _hit_clusters from a start cell: comp grows by
\* the HIT neighbours of its cells until none is left.
RECURSIVE Flood(_, _, _)
Flood(self, knowledge, comp) ==
    LET more == {q \in Cells(self.size) \ comp :
                    /\ knowledge[q] = HIT
                    /\ \E p \in comp, i \in DOMAIN Dirs : q = Step(p, Dirs[i])}
    IN  IF more = {} THEN comp ELSE Flood(self, knowledge, comp \cup more)

\* orientation of a component: 'h', 'v' or None
Orient(comp) ==
    IF Cardinality(comp) >= 2
    THEN IF Cardinality({p[1] : p \in comp}) = 1 THEN "h"
         ELSE IF Cardinality({p[2] : p \in comp}) = 1 THEN "v"
         ELSE "None"
    ELSE "None"

\* The scan of _hit_clusters from row-major position i on, visited being the
\* cells of the components found so far; the scan moves straight to the next
\* HIT cell that is not visited, the cells in between doing nothing.
RECURSIVE ClusterScan(_, _, _, _)
ClusterScan(self, knowledge, i, visited) ==
    LET rest == {k \in i .. self.size * self.size :
                    /\ knowledge[RowMajor(self.size)[k]] = HIT
                    /\ RowMajor(self.size)[k] \notin visited}
    IN  IF rest = {} THEN <<>>
        ELSE LET k == CHOOSE x \in rest : \A y \in rest : x <= y
                 p == RowMajor(self.size)[k]
                 comp == Flood(self, knowledge, {p})
             IN  <<[cells |-> comp, orient |-> Orient(comp)]>>
                     \o ClusterScan(self, knowledge, k + 1, visited \cup comp)

_hit_clusters(self, knowledge) == ClusterScan(self, knowledge, 1, {})

_placement_cells(r, c, length, horizontal) ==
    [i \in 1 .. length |-> RegionCell(r, c, i - 1, horizontal)]

\* The loop over the clusters from position j on, `intersected` clusters
\* having been met before; every return of the source is a branch here.
RECURSIVE ConsistentFrom(_, _, _, _, _, _)
ConsistentFrom(cells_set, clusters, length, horizontal, j, intersected) ==
    IF j > Len(clusters) THEN TRUE
    ELSE LET comp   == clusters[j].cells
             orient == clusters[j].orient
         IN  IF cells_set \cap comp = {}
             THEN ConsistentFrom(cells_set, clusters, length, horizontal, j + 1, intersected)
             ELSE IF Cardinality(comp) > length THEN FALSE
             ELSE IF ~(comp \subseteq cells_set) THEN FALSE
             ELSE IF orient = "h" /\ ~horizontal THEN FALSE
             ELSE IF orient = "v" /\ horizontal THEN FALSE
             ELSE IF intersected + 1 > 1 THEN FALSE
             ELSE ConsistentFrom(cells_set, clusters, length, horizontal, j + 1,
                                 intersected + 1)

_placement_consistent_with_clusters(cells, clusters, length, horizontal) ==
    ConsistentFrom(Range(cells), clusters, length, horizontal, 1, 0)

\* The origins the two loops of heatmap visit for one length.
HeatOrigins(self, length, horizontal) ==
    IF horizontal
    THEN (0 .. self.size - 1) \X (0 .. self.size - length)
    ELSE (0 .. self.size - length) \X (0 .. self.size - 1)

\* The placements of one length and orientation that add to the heat.
Surviving(self, knowledge, clusters, length, horizontal) ==
    {o \in HeatOrigins(self, length, horizontal) :
        /\ _valid_placement_on_knowledge(self, knowledge, o[1], o[2], length, horizontal)
        /\ _placement_consistent_with_clusters(
               _placement_cells(o[1], o[2], length, horizontal), clusters, length,
               horizontal)}

\* heat after the loop `for length in ships` from position i on.
RECURSIVE HeatLoop(_, _, _, _, _, _)
HeatLoop(self, knowledge, clusters, ships, i, heat) ==
    IF i > Len(ships) THEN heat
    ELSE LET length == ships[i]
             hs == Surviving(self, knowledge, clusters, length, TRUE)
             vs == Surviving(self, knowledge, clusters, length, FALSE)
             heat2 ==
                Strict(<<hs, vs, heat>>, Tabulate(
                  [p \in Cells(self.size) |->
                    heat[p]
                      + Cardinality({o \in hs : o[1] = p[1] /\ o[2] <= p[2]
                                                  /\ p[2] < o[2] + length})
                      + Cardinality({o \in vs : o[2] = p[2] /\ o[1] <= p[1]
                                                  /\ p[1] < o[1] + length})]))
         IN  Strict(heat2, HeatLoop(self, knowledge, clusters, ships, i + 1, heat2))

\* `remaining_ships or self.remaining_ships`: None and the empty list are falsy.
HeatShips(self, remaining_ships) ==
    IF remaining_ships = None \/ Val(remaining_ships) = <<>>
    THEN self.remaining_ships ELSE Val(remaining_ships)

\* heat after the placement loops (ai.py:112-131)
HeatBase(self, knowledge, remaining_ships) ==
    LET clusters == _hit_clusters(self, knowledge)
    IN  Strict(clusters,
               HeatLoop(self, knowledge, clusters, HeatShips(self, remaining_ships), 1,
                        [p \in Cells(self.size) |-> 0]))

\* heat after the adjacency boost (ai.py:133-140): +3 for each HIT neighbour
HeatBoost(self, knowledge, heat) ==
    Strict(heat, Tabulate(
      [p \in Cells(self.size) |->
        IF knowledge[p] = UNKNOWN
        THEN heat[p] + 3 * Cardinality({i \in DOMAIN Dirs :
                                           LET q == Step(p, Dirs[i])
                                           IN  InGrid(self.size, q) /\ knowledge[q] = HIT})
        ELSE heat[p]]))

\* Faulty variant of IntQuarter: rounding to the nearest integer.
IntQuarterRounded(x) == (x + 2) \div 4

\* int(x * 0.25): 0.25 is exact in binary floating point, int truncates
\* toward zero.
IntQuarter(x) == IF x >= 0 THEN x \div 4 ELSE 0 - ((0 - x) \div 4)

SeqMin(s) == CHOOSE x \in Range(s) : \A y \in Range(s) : x <= y

\* Faulty variant of HeatParity: the even-parity cells are the ones scaled.
HeatParityEvenCells(self, knowledge, ships, heat) ==
    LET any_hit == \E p \in Cells(self.size) : knowledge[p] = HIT
    IN  IF ~any_hit /\ ships # <<>> /\ SeqMin(ships) >= 2
        THEN Strict(heat, Tabulate(
               [p \in Cells(self.size) |->
                 IF (p[1] + p[2]) % 2 = 0 THEN IntQuarter(heat[p]) ELSE heat[p]]))
        ELSE heat

\* parity pruning (ai.py:142-150)
HeatParity(self, knowledge, ships, heat) ==
    LET any_hit == \E p \in Cells(self.size) : knowledge[p] = HIT
    IN  IF ~any_hit /\ ships # <<>> /\ SeqMin(ships) >= 2
        THEN Strict(heat, Tabulate(
               [p \in Cells(self.size) |->
                 IF (p[1] + p[2]) % 2 = 1 THEN IntQuarter(heat[p]) ELSE heat[p]]))
        ELSE heat

\* The heat grid at the three points of heatmap: after the placement loops,
\* after the adjacency boost, and as returned.
HeatStages(self, knowledge, remaining_ships) ==
    LET base    == HeatBase(self, knowledge, remaining_ships)
        boosted == HeatBoost(self, knowledge, base)
        heat    == HeatParity(self, knowledge, HeatShips(self, remaining_ships), boosted)
    IN  Strict(base, Strict(boosted, Strict(heat,
               [base |-> base, boosted |-> boosted, heat |-> heat])))

heatmap(self, knowledge, remaining_ships) ==
    HeatStages(self, knowledge, remaining_ships).heat

\* Faulty variant of RemoveFirst: every occurrence is dropped.
RemoveEvery(s, x) == SelectSeq(s, LAMBDA y : y # x)

\* notify_sunk: list.remove drops the first occurrence.
RECURSIVE RemoveFirst(_, _)
RemoveFirst(s, x) ==
    IF s = <<>> THEN <<>>
    ELSE IF Head(s) = x THEN Tail(s)
    ELSE <<Head(s)>> \o RemoveFirst(Tail(s), x)

notify_sunk(self, length) ==
    IF length \in Range(self.remaining_ships)
    THEN [self EXCEPT !.remaining_ships = RemoveFirst(self.remaining_ships, length)]
    ELSE self

\* Python's order on the tuples (heat, r, c)
TupleGreater(a, b) ==
    \/ a[1] > b[1]
    \/ a[1] = b[1] /\ a[2] > b[2]
    \/ a[1] = b[1] /\ a[2] = b[2] /\ a[3] > b[3]

\* cells.sort(reverse=True) on distinct tuples
SortedDesc(S) ==
    Strict(S, Tabulate(
      [i \in 1 .. Cardinality(S) |->
        CHOOSE x \in S : Cardinality({y \in S : TupleGreater(y, x)}) = i - 1]))

\* Faulty variant of _top_candidates: the cells are not filtered by UNKNOWN.
_top_candidates_unfiltered(self, heat, knowledge, k) ==
    LET cells  == {<<heat[p], p[1], p[2]>> : p \in Cells(self.size)}
        sorted == SortedDesc(cells)
        firstk == SubSeq(sorted, 1, IF Len(sorted) < k THEN Len(sorted) ELSE k)
        pos    == SelectSeq(firstk, LAMBDA t : t[1] > 0)
        pick   == IF pos # <<>> THEN pos ELSE firstk
    IN  Strict(pick, Tabulate([i \in 1 .. Len(pick) |-> <<pick[i][2], pick[i][3]>>]))

_top_candidates(self, heat, knowledge, k) ==
    LET cells  == {<<heat[p], p[1], p[2]>> : p \in {q \in Cells(self.size) : knowledge[q] = UNKNOWN}}
        sorted == SortedDesc(cells)
        firstk == SubSeq(sorted, 1, IF Len(sorted) < k THEN Len(sorted) ELSE k)
        pos    == SelectSeq(firstk, LAMBDA t : t[1] > 0)
        pick   == IF pos # <<>> THEN pos ELSE firstk
    IN  Strict(pick, Tabulate([i \in 1 .. Len(pick) |-> <<pick[i][2], pick[i][3]>>]))

\* cand.append(x) guarded by `x not in seen`; seen holds the cells of cand.
RECURSIVE AppendAllNew(_, _)
AppendAllNew(cand, xs) ==
    IF xs = <<>> THEN cand
    ELSE AppendAllNew(IF Head(xs) \in Range(cand) THEN cand ELSE Append(cand, Head(xs)),
                      Tail(xs))

\* The in-bounds UNKNOWN neighbours of a cell, in the order of the directions.
UnknownNeighbours(self, knowledge, p) ==
    SelectSeq([i \in DOMAIN Dirs |-> Step(p, Dirs[i])],
              LAMBDA q : InGrid(self.size, q) /\ knowledge[q] = UNKNOWN)

\* The iteration `for r, c in comp` over a Python set: the order is the hash
\* table's; ord ranks the cells and the set is visited by ascending rank.
SetIter(S, ord) ==
    Strict(S, Tabulate(
      [i \in 1 .. Cardinality(S) |->
        CHOOSE x \in S : Cardinality({y \in S : ord[y] < ord[x]}) = i - 1]))

RECURSIVE NeighbourCands(_, _, _, _)
NeighbourCands(self, knowledge, cellseq, cand) ==
    IF cellseq = <<>> THEN cand
    ELSE NeighbourCands(self, knowledge, Tail(cellseq),
                        AppendAllNew(cand, UnknownNeighbours(self, knowledge, Head(cellseq))))

MinOf(S) == CHOOSE x \in S : \A y \in S : x <= y
MaxOf(S) == CHOOSE x \in S : \A y \in S : x >= y

\* Faulty variant of EndCands: the `while` loops run on without the break,
\* over the whole run of UNKNOWN cells at each end.
RECURSIVE UnknownRun(_, _, _, _)
UnknownRun(self, knowledge, p, d) ==
    IF InGrid(self.size, p) /\ knowledge[p] = UNKNOWN
    THEN <<p>> \o UnknownRun(self, knowledge, Step(p, d), d)
    ELSE <<>>

EndCandsWholeRun(self, knowledge, comp, orient) ==
    IF orient = "h"
    THEN LET rows  == CHOOSE r \in {p[1] : p \in comp} : TRUE
             min_c == MinOf({p[2] : p \in comp})
             max_c == MaxOf({p[2] : p \in comp})
         IN  UnknownRun(self, knowledge, <<rows, min_c - 1>>, <<0, 0 - 1>>)
               \o UnknownRun(self, knowledge, <<rows, max_c + 1>>, <<0, 1>>)
    ELSE LET cols  == CHOOSE c \in {p[2] : p \in comp} : TRUE
             min_r == MinOf({p[1] : p \in comp})
             max_r == MaxOf({p[1] : p \in comp})
         IN  UnknownRun(self, knowledge, <<min_r - 1, cols>>, <<0 - 1, 0>>)
               \o UnknownRun(self, knowledge, <<max_r + 1, cols>>, <<1, 0>>)

\* The two ends of an oriented cluster: each `while` adds at most one cell,
\* its body ends with break.
EndCands(self, knowledge, comp, orient) ==
    IF orient = "h"
    THEN LET rows  == CHOOSE r \in {p[1] : p \in comp} : TRUE
             min_c == MinOf({p[2] : p \in comp})
             max_c == MaxOf({p[2] : p \in comp})
             left  == IF min_c - 1 >= 0 /\ knowledge[<<rows, min_c - 1>>] = UNKNOWN
                      THEN <<<<rows, min_c - 1>>>> ELSE <<>>
             right == IF max_c + 1 < self.size /\ knowledge[<<rows, max_c + 1>>] = UNKNOWN
                      THEN <<<<rows, max_c + 1>>>> ELSE <<>>
         IN  left \o right
    ELSE LET cols  == CHOOSE c \in {p[2] : p \in comp} : TRUE
             min_r == MinOf({p[1] : p \in comp})
             max_r == MaxOf({p[1] : p \in comp})
             up    == IF min_r - 1 >= 0 /\ knowledge[<<min_r - 1, cols>>] = UNKNOWN
                      THEN <<<<min_r - 1, cols>>>> ELSE <<>>
             down  == IF max_r + 1 < self.size /\ knowledge[<<max_r + 1, cols>>] = UNKNOWN
                      THEN <<<<max_r + 1, cols>>>> ELSE <<>>
         IN  up \o down

RECURSIVE TargetLoop(_, _, _, _, _, _)
TargetLoop(self, knowledge, clusters, j, cand, ord) ==
    IF j > Len(clusters) THEN cand
    ELSE LET comp   == clusters[j].cells
             orient == clusters[j].orient
             cand2  == IF comp = {} THEN cand
                       ELSE IF orient = "None"
                       THEN NeighbourCands(self, knowledge, SetIter(comp, ord), cand)
                       ELSE AppendAllNew(cand, EndCands(self, knowledge, comp, orient))
         IN  TargetLoop(self, knowledge, clusters, j + 1, cand2, ord)

_target_candidates(self, knowledge, ord) ==
    LET clusters == _hit_clusters(self, knowledge)
    IN  Strict(clusters, TargetLoop(self, knowledge, clusters, 1, <<>>, ord))

\* sum(sum(row) for row in heat), over the positions lo .. hi by halves
RECURSIVE SumBetween(_, _, _, _)
SumBetween(heat, cellseq, lo, hi) ==
    IF lo > hi THEN 0
    ELSE IF lo = hi THEN heat[cellseq[lo]]
    ELSE LET mid == (lo + hi) \div 2
         IN  SumBetween(heat, cellseq, lo, mid) + SumBetween(heat, cellseq, mid + 1, hi)

\* the sum over the cells from position i on
SumFrom(heat, cellseq, i) == SumBetween(heat, cellseq, i, Len(cellseq))

TotalHeat(self, heat) == SumFrom(heat, RowMajor(self.size), 1)

\* Floats are modelled as exact fractions <<numerator, denominator>> with a
\* positive denominator; the quotients of the source are of small integers,
\* far apart compared with the rounding of a double.
Frac(a, b) == <<a, b>>
\* Faulty variant of FracSub: the distance of x and y.
FracDistance(x, y) ==
    IF x[1] * y[2] >= y[1] * x[2]
    THEN <<x[1] * y[2] - y[1] * x[2], x[2] * y[2]>>
    ELSE <<y[1] * x[2] - x[1] * y[2], x[2] * y[2]>>
FracSub(x, y) == <<x[1] * y[2] - y[1] * x[2], x[2] * y[2]>>
\* Equal denominators are not multiplied out, which keeps the products of
\* a 10 x 10 grid within TLC's 32-bit integers.
FracGreater(x, y) == IF x[2] = y[2] THEN x[1] > y[1] ELSE x[1] * y[2] > y[1] * x[2]

_best_counter_gain(self, player_knowledge_on_ai, ai_remaining_ships) ==
    LET heat_p == heatmap(self, player_knowledge_on_ai, Some(ai_remaining_ships))
        total  == TotalHeat(self, heat_p)
        best   == MaxOf({0} \cup {heat_p[p] : p \in {q \in Cells(self.size) :
                                        player_knowledge_on_ai[q] = UNKNOWN}})
    IN  Strict(heat_p,
               IF total <= 0 THEN Frac(0, 1)
               ELSE IF best <= 0 THEN Frac(0, 1) ELSE Frac(best, total))

\* best_score = -1e9: every score lies in [-1, 1] (phit and opp_gain are in
\* [0, 1]), so the start value is below all of them; the model takes -2 to
\* stay within TLC's 32-bit integers.
BestScoreStart == Frac(0 - 2, 1)

\* The scoring loop from candidate i on.
RECURSIVE ScoreLoop(_, _, _, _, _, _, _)
ScoreLoop(heat, total_heat, opp_gain, candidates, i, best_score, best_move) ==
    IF i > Len(candidates) THEN best_move
    ELSE LET p     == candidates[i]
             phit  == IF total_heat <= 0 THEN Frac(0, 1) ELSE Frac(heat[p], total_heat)
             score == FracSub(phit, opp_gain)
         IN  IF FracGreater(score, best_score)
             THEN ScoreLoop(heat, total_heat, opp_gain, candidates, i + 1, score, p)
             ELSE ScoreLoop(heat, total_heat, opp_gain, candidates, i + 1, best_score,
                            best_move)

\* ai_remaining_ships is None or Some(list); ord is the iteration order of
\* Python sets (see SetIter).
choose_shot(self, player_board_knowledge, player_shots_on_ai_board, ai_remaining_ships, ord) ==
    LET heat == heatmap(self, player_board_knowledge, Some(self.remaining_ships))
        target_cands == _target_candidates(self, player_board_knowledge, ord)
        candidates == IF target_cands # <<>> THEN target_cands
                      ELSE _top_candidates(self, heat, player_board_knowledge, TOP_K)
    IN  Strict(<<heat, candidates>>,
        IF candidates = <<>>
        THEN LET unknown == {i \in 1 .. self.size * self.size :
                                player_board_knowledge[RowMajor(self.size)[i]] = UNKNOWN}
             IN  IF unknown # {} THEN RowMajor(self.size)[MinOf(unknown)] ELSE <<0, 0>>
        ELSE LET opp_gain ==
                     _best_counter_gain(self, player_shots_on_ai_board,
                         IF ai_remaining_ships = None \/ Val(ai_remaining_ships) = <<>>
                         THEN STANDARD_SHIPS ELSE Val(ai_remaining_ships))
                 total_heat == TotalHeat(self, heat)
             IN  Strict(<<opp_gain, total_heat>>,
                        ScoreLoop(heat, total_heat, opp_gain, candidates, 1,
                                  BestScoreStart, candidates[1])))

-----------------------------------------------------------------------------
(* The board specification: a Board of side BoardSize driven by its public *)
(* methods.                                                                *)
\* Shots: every cell and the coordinates one step outside each edge.
\* Placement origins: every cell and the ones one step before the low edges
\* (a region leaves the board at the high edges by its length).
\* Lengths: positive, up to one more than fits.
Coords(n) == (0 - 1) .. n
Origins(n) == (0 - 1) .. n - 1
Lengths(n) == 1 .. n + 1

ShipLists(n) == UNION {[1 .. k -> Lengths(n)] : k \in 0 .. MaxShips}

NoCall == [op |-> "init"]

\* No Game object exists outside the game specification.
NoGame == [state |-> "none"]

BoardInit ==
    /\ board = NewBoard(BoardSize)
    /\ reports = <<>>
    /\ ai = NewAI(BoardSize, None)
    /\ known = get_ai_knowledge(NewBoard(BoardSize))
    /\ call = NoCall
    /\ ret = [op |-> "init"]
    /\ game = NoGame

PlaceShip ==
    /\ Len(board.ships) < MaxShips
    /\ \E r \in Origins(board.size), c \in Origins(board.size),
          length \in Lengths(board.size), horizontal \in BOOLEAN :
          LET res == place_ship(board, r, c, length, horizontal)
          IN  /\ board' = res.board
              /\ reports' = IF res.ok THEN Append(reports, <<>>) ELSE reports
              /\ UNCHANGED <<ai, known, game>>
              /\ call' = [op |-> "place_ship", r |-> r, c |-> c,
                          length |-> length, horizontal |-> horizontal]
              /\ ret' = [op |-> "place_ship", ok |-> res.ok]

ReceiveShot ==
    \E r \in Coords(board.size), c \in Coords(board.size) :
        LET res == receive_shot(board, r, c)
            k   == FirstShipAt(board, r, c)
        IN  /\ board' = res.board
            /\ reports' = IF res.sunk_length # None
                          THEN [reports EXCEPT ![k] = Append(@, Val(res.sunk_length))]
                          ELSE reports
            /\ UNCHANGED <<ai, known, game>>
            /\ call' = [op |-> "receive_shot", r |-> r, c |-> c]
            /\ ret' = [op |-> "receive_shot", hit |-> res.hit,
                       sunk_length |-> res.sunk_length,
                       game_over |-> res.game_over]

RandomPlaceAll ==
    \E ships \in {Some(l) : l \in ShipLists(board.size)} \cup {None} :
        \E res \in random_place_all(board, ships) :
            /\ board' = res.board
            /\ reports' = [i \in DOMAIN res.board.ships |-> <<>>]
            /\ UNCHANGED <<ai, known, game>>
            /\ call' = [op |-> "random_place_all", ships |-> ships]
            /\ ret' = [op |-> "random_place_all", err |-> res.err]

GetAiKnowledge ==
    /\ board' = board
    /\ UNCHANGED <<reports, ai, known, game>>
    /\ call' = [op |-> "get_ai_knowledge"]
    /\ ret' = [op |-> "get_ai_knowledge", view |-> get_ai_knowledge(board)]

BoardNext == PlaceShip \/ ReceiveShot \/ RandomPlaceAll \/ GetAiKnowledge

Spec == BoardInit /\ [][BoardNext]_vars

-----------------------------------------------------------------------------
(* The placement specification: random_place_all on a Board of side        *)
(* BoardSize with every list of up to MaxFleet lengths.                    *)
FleetLists(n) == UNION {[1 .. k -> Lengths(n)] : k \in 0 .. MaxFleet}

RandomPlaceFleet ==
    \E lens \in FleetLists(board.size) :
        \E res \in random_place_all(board, Some(lens)) :
            /\ board' = res.board
            /\ reports' = [i \in DOMAIN res.board.ships |-> <<>>]
            /\ UNCHANGED <<ai, known, game>>
            /\ call' = [op |-> "random_place_all", ships |-> Some(lens)]
            /\ ret' = [op |-> "random_place_all", err |-> res.err]

PlaceNext == RandomPlaceFleet

PlaceSpec == BoardInit /\ [][PlaceNext]_vars

-----------------------------------------------------------------------------
(* The targeting specifications: the engine's functions applied to          *)
(* knowledge grids of side AiSize.  The grids are all the grids without a   *)
(* HIT cell, and the grids with up to MaxHit HIT cells in which the other   *)
(* cells are UNKNOWN but for MaxMiss of them, or MISS but for MaxUnknown.   *)
(* heatmap and choose_shot change nothing, so each is applied once to each *)
(* input.                                                                  *)
Count(g, v) == Cardinality({p \in DOMAIN g : g[p] = v})

KnowledgeGrids(n) ==
    {g \in [Cells(n) -> {UNKNOWN, HIT, MISS}] :
        \/ Count(g, HIT) = 0
        \/ /\ Count(g, HIT) <= MaxHit
           /\ Count(g, MISS) <= MaxMiss \/ Count(g, UNKNOWN) <= MaxUnknown}

\* The remaining_ships of the engine: nothing left, a one-cell ship, two
\* equal ships, two different ships.
AiShipLists == {<<>>, <<1>>, <<2, 2>>, <<3, 2>>}

AiInit ==
    /\ board = NewBoard(AiSize)
    /\ reports = <<>>
    /\ known \in KnowledgeGrids(AiSize)
    /\ \E ships \in AiShipLists : ai = [size |-> AiSize, remaining_ships |-> ships]
    /\ call = NoCall
    /\ ret = [op |-> "init"]
    /\ game = NoGame

\* The remaining_ships argument of heatmap: omitted, empty, a list.
HeatArgs == {None, Some(<<>>), Some(<<2>>)}

Heatmap ==
    \E ships \in HeatArgs :
        LET st == HeatStages(ai, known, ships)
        IN  /\ call = NoCall
            /\ call' = [op |-> "heatmap", ships |-> ships]
            /\ ret' = [op |-> "heatmap", base |-> st.base, boosted |-> st.boosted,
                       heat |-> st.heat]
            /\ UNCHANGED <<board, reports, ai, known, game>>

HeatNext == Heatmap

HeatSpec == AiInit /\ [][HeatNext]_vars

\* The iteration orders of the cells of a cluster: any cell of the set can
\* come first, and only the first cell with an eligible neighbour decides
\* which candidate the scoring loop meets first.  Rot(n, j) is the row-major
\* order started at the j-th cell.  Only clusters without orientation and
\* with more than one cell are iterated in set order, so the orders tried
\* start at the first cell of the grid or at a cell of such a cluster.
Rot(n, j) == [p \in Cells(n) |-> (p[1] * n + p[2] + n * n - j) % (n * n)]

SetOrders(self, knowledge) ==
    LET clusters == _hit_clusters(self, knowledge)
        iterated == UNION {clusters[i].cells :
                             i \in {k \in DOMAIN clusters :
                                      /\ clusters[k].orient = "None"
                                      /\ Cardinality(clusters[k].cells) > 1}}
    IN  {Rot(self.size, j) : j \in {0} \cup {p[1] * self.size + p[2] : p \in iterated}}

\* The player's knowledge of the AI board and the AI's remaining ships, as
\* the orchestrator hands them to choose_shot.
CounterInputs ==
    {<<[p \in Cells(AiSize) |-> UNKNOWN], None>>,
     <<[p \in Cells(AiSize) |-> IF p = <<0, 0>> THEN HIT
                                ELSE IF p = <<1, 1>> THEN MISS ELSE UNKNOWN],
       Some(<<2>>)>>}

ChooseShot ==
    \E inp \in CounterInputs, ord \in SetOrders(ai, known) :
        /\ call = NoCall
        /\ call' =[op |-> "choose_shot", player_shots_on_ai_board |-> inp[1],
                    ai_remaining_ships |-> inp[2], ord |-> ord]
        /\ ret' = [op |-> "choose_shot",
                   shot |-> choose_shot(ai, known, inp[1], inp[2], ord)]
        /\ UNCHANGED <<board, reports, ai, known, game>>

ShotNext == ChooseShot

ShotSpec == AiInit /\ [][ShotNext]_vars

-----------------------------------------------------------------------------
(* The scenario specification: the engine of a new game (GRID_SIZE,        *)
(* STANDARD_SHIPS) asked for its first shot on an all-UNKNOWN grid, as     *)
(* ai_take_shot asks: the player's view of the AI board is the knowledge   *)
(* view of `board`, an AI board with its fleet and at most one shot taken. *)

\* [s.length for s in self.ai_board.ships if not s.sunk]
UnsunkLengths(b) ==
    LET live == SelectSeq(b.ships, LAMBDA s : ~sunk(s))
    IN  [i \in DOMAIN live |-> live[i].length]

\* The fleet laid out on every second row from the left edge.
RECURSIVE FleetOnRows(_, _, _)
FleetOnRows(b, lens, i) ==
    IF i > Len(lens) THEN b
    ELSE FleetOnRows(place_ship(b, 2 * (i - 1), 0, lens[i], TRUE).board, lens, i + 1)

ScenarioBoards ==
    LET b0 == FleetOnRows(NewBoard(GRID_SIZE), STANDARD_SHIPS, 1)
    IN  {b0} \cup {receive_shot(b0, p[1], p[2]).board : p \in Cells(GRID_SIZE)}

ScenarioInit ==
    /\ board \in ScenarioBoards
    /\ reports = <<>>
    /\ ai = NewAI(GRID_SIZE, None)
    /\ known = get_ai_knowledge(NewBoard(GRID_SIZE))
    /\ call = NoCall
    /\ ret = [op |-> "init"]
    /\ game = NoGame

\* Game.ai_take_shot up to the call of choose_shot (main.py:138-141).
ScenarioShot ==
    LET player_view_of_ai == get_ai_knowledge(board)
        remaining == Some(UnsunkLengths(board))
    IN  /\ call = NoCall
        /\ call' = [op |-> "choose_shot", player_shots_on_ai_board |-> player_view_of_ai,
                    ai_remaining_ships |-> remaining]
        /\ ret' = [op |-> "choose_shot",
                   shot |-> choose_shot(ai, known, player_view_of_ai, remaining,
                                        Rot(ai.size, 0))]
        /\ UNCHANGED <<board, reports, ai, known, game>>

ScenarioNext == ScenarioShot

ScenarioSpec == ScenarioInit /\ [][ScenarioNext]_vars

-----------------------------------------------------------------------------
(* The target specification: _target_candidates applied to the knowledge   *)
(* grids of the targeting specifications, to the grids of side TargetSize  *)
(* with few HIT and MISS cells, and to the grids of scenarios B and C.     *)

\* The subsets of S with at most k elements.
RECURSIVE SetsUpTo(_, _)
SetsUpTo(S, k) ==
    IF k = 0 THEN {{}}
    ELSE LET prev == SetsUpTo(S, k - 1)
         IN  prev \cup {T \cup {x} : T \in prev, x \in S}

GridOf(n, hits, misses) ==
    [p \in Cells(n) |-> IF p \in hits THEN HIT
                        ELSE IF p \in misses THEN MISS ELSE UNKNOWN]

TargetGrids(n) ==
    UNION {{GridOf(n, H, M) : M \in SetsUpTo(Cells(n) \ H, MaxTargetMiss)} :
              H \in SetsUpTo(Cells(n), MaxTargetHit)}

ScenarioB == GridOf(GRID_SIZE, {<<4, 4>>}, {})
ScenarioC == GridOf(GRID_SIZE, {<<4, 4>>, <<4, 5>>}, {})

TargetInit ==
    /\ board = NewBoard(AiSize)
    /\ reports = <<>>
    /\ \/ known \in KnowledgeGrids(AiSize) /\ ai = NewAI(AiSize, None)
       \/ known \in TargetGrids(TargetSize) /\ ai = NewAI(TargetSize, None)
       \/ known \in {ScenarioB, ScenarioC} /\ ai = NewAI(GRID_SIZE, None)
    /\ call = NoCall
    /\ ret = [op |-> "init"]
    /\ game = NoGame

TargetCandidates ==
    \E ord \in SetOrders(ai, known) :
        /\ call = NoCall
        /\ call' = [op |-> "_target_candidates"]
        /\ ret' = [op |-> "_target_candidates",
                   cands |-> _target_candidates(ai, known, ord)]
        /\ UNCHANGED <<board, reports, ai, known, game>>

TargetNext == TargetCandidates

TargetSpec == TargetInit /\ [][TargetNext]_vars

-----------------------------------------------------------------------------
(* The notification specification: an engine created with a list of ships  *)
(* and notified of sunk lengths, tracked or not.  reports is the history:  *)
(* each notified length with whether the list held it.                     *)
NotifyLists == UNION {[1 .. k -> 1 .. MaxLength] : k \in 1 .. MaxListLen}

NotifyInit ==
    /\ board = NewBoard(AiSize)
    /\ reports = <<>>
    /\ \E ships \in {Some(l) : l \in NotifyLists} \cup {None} : ai = NewAI(AiSize, ships)
    /\ known = get_ai_knowledge(NewBoard(AiSize))
    /\ call = NoCall
    /\ ret = [op |-> "init"]
    /\ game = NoGame

NotifySunk ==
    /\ Len(reports) < MaxNotify
    /\ \E length \in 1 .. MaxLength + 1 :
          /\ ai' = notify_sunk(ai, length)
          /\ reports' = Append(reports, <<length, length \in Range(ai.remaining_ships)>>)
          /\ call' = [op |-> "notify_sunk", length |-> length]
          /\ ret' = [op |-> "notify_sunk"]
          /\ UNCHANGED <<board, known, game>>

NotifyNext == NotifySunk

NotifySpec == NotifyInit /\ [][NotifyNext]_vars

-----------------------------------------------------------------------------
(* The game specification: the Game object of main.py driven by the events *)
(* of Game.run, with boards of side GameSize and the fleet GameFleet in    *)
(* place of GRID_SIZE and STANDARD_SHIPS.                                  *)

\* the fleet both sides get (for STANDARD_SHIPS)
GameFleet == <<2, 1>>

\* Board() followed by random_place_all(list(STANDARD_SHIPS)); an exception
\* of random_place_all would end the program before a Game exists.
Deals ==
    {d.board : d \in {x \in random_place_all(NewBoard(GameSize), Some(GameFleet)) :
                        x.err = "none"}}

\* BattleshipAI() with the defaults of the game
GameAI == NewAI(GameSize, Some(GameFleet))

\* Game.reset: the Game objects it can leave.
reset ==
    {[player_board |-> p, ai_board |-> a, ai |-> GameAI, state |-> "ready",
      ai_move_cooldown |-> 0, winner |-> None] : p \in Deals, a \in Deals}

\* Faulty variant of start: without the test for the state "ready".
start_from_any_state(self) ==
    [self EXCEPT !.state = "player_turn"]

start(self) ==
    IF self.state = "ready" THEN [self EXCEPT !.state = "player_turn"] ELSE self

reroll(self) ==
    IF self.state = "ready"
    THEN {[self EXCEPT !.player_board = p, !.ai_board = a, !.ai = GameAI] :
            p \in Deals, a \in Deals}
    ELSE {self}

\* ai_take_shot from the call of choose_shot on (main.py:140-168), with the
\* two knowledge views it computed.  Returns the Game after the call, the
\* cell choose_shot returned and the length handed to notify_sunk (None:
\* notify_sunk was not called).
AiShotWith(self, player_knowledge, player_view_of_ai, ord) ==
    The({LET res == receive_shot(self.player_board, cell[1], cell[2])
             g1  == [self EXCEPT !.player_board = res.board]
         IN  [game |-> IF res.game_over
                       THEN [g1 EXCEPT !.state = "game_over", !.winner = Some("AI")]
                       ELSE IF res.hit
                       THEN [g1 EXCEPT !.state = "ai_turn", !.ai_move_cooldown = AiDelay]
                       ELSE [g1 EXCEPT !.state = "player_turn"],
              shot |-> Some(cell), notified |-> None]
         : cell \in {choose_shot(self.ai, player_knowledge, player_view_of_ai,
                                 Some(UnsunkLengths(self.ai_board)), ord)}})

\* Faulty variant of ai_take_shot: the two knowledge views are swapped.
ai_take_shot_swapped_views(self, ord) ==
    The({AiShotWith(g, player_view_of_ai, player_knowledge, ord) :
           g \in {self},
           player_knowledge \in {get_ai_knowledge(self.player_board)},
           player_view_of_ai \in {get_ai_knowledge(self.ai_board)}})

ai_take_shot(self, ord) ==
    The({AiShotWith(g, player_knowledge, player_view_of_ai, ord) :
           g \in {self},
           player_knowledge \in {get_ai_knowledge(self.player_board)},
           player_view_of_ai \in {get_ai_knowledge(self.ai_board)}})

\* Faulty variant of update: when the cooldown has run out it is set again
\* and no shot is taken.
update_rearms_cooldown(self, dt, ord) ==
    IF self.state = "ai_turn"
    THEN [game |-> [self EXCEPT !.ai_move_cooldown =
                                   IF @ - dt <= 0 THEN AiDelay ELSE @ - dt],
          shot |-> None, notified |-> None]
    ELSE [game |-> self, shot |-> None, notified |-> None]

update(self, dt, ord) ==
    IF self.state = "ai_turn"
    THEN LET g1 == [self EXCEPT !.ai_move_cooldown = @ - dt]
         IN  IF g1.ai_move_cooldown <= 0 THEN ai_take_shot(g1, ord)
             ELSE [game |-> g1, shot |-> None, notified |-> None]
    ELSE [game |-> self, shot |-> None, notified |-> None]

\* cell is None or Some(<<r, c>>), as pos_to_cell returns it.
handle_player_shot(self, cell) ==
    IF cell = None THEN [game |-> self, shot |-> None, notified |-> None]
    ELSE LET r == Val(cell)[1]
             c == Val(cell)[2]
         IN  IF ~is_valid_shot(self.ai_board, r, c)
             THEN [game |-> self, shot |-> None, notified |-> None]
             ELSE The({
                  LET told == res.sunk_length # None /\ Val(res.sunk_length) # 0
                      g1  == [self EXCEPT !.ai_board = res.board,
                                          !.ai = IF told
                                                 THEN notify_sunk(@, Val(res.sunk_length))
                                                 ELSE @]
                  IN  [game |-> IF res.game_over
                                THEN [g1 EXCEPT !.state = "game_over",
                                                !.winner = Some("Player")]
                                ELSE IF res.hit
                                THEN [g1 EXCEPT !.state = "player_turn"]
                                ELSE [g1 EXCEPT !.state = "ai_turn",
                                                !.ai_move_cooldown = AiDelay],
                       shot |-> cell,
                       notified |-> IF told THEN res.sunk_length ELSE None]
                  : res \in {receive_shot(self.ai_board, r, c)}})

GameInit ==
    /\ board = NewBoard(GameSize)
    /\ reports = <<>>
    /\ ai = GameAI
    /\ known = get_ai_knowledge(NewBoard(GameSize))
    /\ call = NoCall
    /\ ret = [op |-> "init"]
    /\ game \in reset

\* K_n
Reset ==
    /\ game' \in reset
    /\ call' = [op |-> "reset"]
    /\ ret' = [op |-> "reset", shot |-> None, notified |-> None]
    /\ UNCHANGED <<board, reports, ai, known>>

\* K_SPACE
Start ==
    /\ game' = start(game)
    /\ call' = [op |-> "start"]
    /\ ret' = [op |-> "start", shot |-> None, notified |-> None]
    /\ UNCHANGED <<board, reports, ai, known>>

\* K_r
Reroll ==
    /\ game' \in reroll(game)
    /\ call' = [op |-> "reroll"]
    /\ ret' = [op |-> "reroll", shot |-> None, notified |-> None]
    /\ UNCHANGED <<board, reports, ai, known>>

\* A left click at cell (None: outside the right grid).
Click(cell) ==
    \E res \in {IF game.state = "player_turn" THEN handle_player_shot(game, cell)
                ELSE [game |-> game, shot |-> None, notified |-> None]} :
        /\ game' = res.game
        /\ call' = [op |-> "handle_player_shot"]
        /\ ret' = [op |-> "handle_player_shot", shot |-> res.shot,
                   notified |-> res.notified]
        /\ UNCHANGED <<board, reports, ai, known>>

HandlePlayerShot ==
    \E cell \in {None} \cup {Some(p) : p \in Cells(GameSize)} : Click(cell)

\* The end of a frame.
Update ==
    \E dt \in 1 .. MaxDt,
       ord \in SetOrders(game.ai, get_ai_knowledge(game.player_board)) :
        \E res \in {update(game, dt, ord)} :
            /\ game' = res.game
            /\ call' = [op |-> "update"]
            /\ ret' = [op |-> "update", shot |-> res.shot, notified |-> res.notified]
            /\ UNCHANGED <<board, reports, ai, known>>

GameNext == Reset \/ Start \/ Reroll \/ HandlePlayerShot \/ Update

GameSpec == GameInit /\ [][GameNext]_vars

\* One game played to its end: no reset (K_n) after the Game is built.
\* The player is taken to click a cell that is a valid shot whenever the
\* state stays player_turn.
PlayerFires ==
    /\ game.state = "player_turn"
    /\ \E p \in Cells(GameSize) :
          is_valid_shot(game.ai_board, p[1], p[2]) /\ Click(Some(p))

\* A frame of the AI's turn.
AiFrame == game.state = "ai_turn" /\ Update

\* Game.run calls update at the end of every frame, so the frames of an AI
\* turn keep coming: weak fairness of AiFrame, with ENABLED <<AiFrame>>_vars
\* written out as the state ai_turn (there update counts the cooldown down
\* or takes a shot, and either changes the Game).
AiFrameFair == []<><<AiFrame>>_vars \/ []<>(game.state # "ai_turn")

GameLiveNext == Start \/ Reroll \/ HandlePlayerShot \/ Update

GameLiveSpec ==
    /\ GameInit
    /\ [][GameLiveNext]_vars
    /\ AiFrameFair
    /\ WF_vars(PlayerFires)

-----------------------------------------------------------------------------
(* Properties of the targeting specifications.                             *)

UnknownCells == {p \in Cells(ai.size) : known[p] = UNKNOWN}

\* C1: choose_shot returns a cell of the grid; when the grid holds an UNKNOWN
\* cell the returned cell is UNKNOWN, and when it is the only one it is the
\* cell returned.
C1_ShotIsUnknownCell ==
    ret.op = "choose_shot"
      => /\ InGrid(ai.size, ret.shot)
         /\ UnknownCells # {} => known[ret.shot] = UNKNOWN
         /\ \A p \in Cells(ai.size) : UnknownCells = {p} => ret.shot = p

\* One UNKNOWN cell left, next to no HIT cell (so no cluster has an UNKNOWN
\* neighbour) and with zero heat, on a grid holding a HIT cell.
C1_Witness ==
    /\ ret.op = "choose_shot"
    /\ Cardinality(UnknownCells) = 1
    /\ \E p \in Cells(ai.size) : known[p] = HIT
    /\ known[ret.shot] = UNKNOWN
    /\ _target_candidates(ai, known, Rot(ai.size, 0)) = <<>>
    /\ heatmap(ai, known, Some(ai.remaining_ships))[ret.shot] = 0

\* C19: the cell choose_shot returns is fixed by the knowledge grid, the
\* engine's remaining_ships and the iteration order alone: among the
\* candidates (the target candidates, or the top candidates when there are
\* none) it is the first one of the highest heat, whatever the player's view
\* of the AI board and the AI's remaining ships handed in.
C19_ShotIgnoresCounterInputs ==
    ret.op = "choose_shot"
      => LET heat == heatmap(ai, known, Some(ai.remaining_ships))
             t    == _target_candidates(ai, known, call.ord)
             cand == IF t # <<>> THEN t ELSE _top_candidates(ai, heat, known, TOP_K)
         IN  Strict(<<heat, cand>>,
               cand # <<>>
                 => \E i \in DOMAIN cand :
                       /\ ret.shot = cand[i]
                       /\ \A j \in DOMAIN cand :
                             /\ heat[cand[j]] <= heat[cand[i]]
                             /\ j < i => heat[cand[j]] < heat[cand[i]])

\* A call with a HIT and a MISS in the player's view of the AI board and the
\* AI's own list [2]: the counter-gain is positive, the candidates differ in
\* heat, the one returned is not the first of the list, and its share of the
\* heat is below the counter-gain, so that its score is negative.
C19_Witness ==
    /\ ret.op = "choose_shot"
    /\ call.ai_remaining_ships = Some(<<2>>)
    /\ LET heat == heatmap(ai, known, Some(ai.remaining_ships))
           t    == _target_candidates(ai, known, call.ord)
           cand == IF t # <<>> THEN t ELSE _top_candidates(ai, heat, known, TOP_K)
           gain == _best_counter_gain(ai, call.player_shots_on_ai_board, <<2>>)
       IN  Strict(<<heat, cand>>,
             /\ Len(cand) >= 2
             /\ ret.shot # cand[1]
             /\ heat[cand[1]] > 0
             /\ FracGreater(gain, Frac(heat[ret.shot], TotalHeat(ai, heat))))

\* The placement count of C9, written from its statement.  A hit-cluster is
\* a smallest non-empty set of HIT cells that no HIT cell outside it touches.
Adjacent(p, q) ==
    \/ p[1] = q[1] /\ (p[2] = q[2] + 1 \/ q[2] = p[2] + 1)
    \/ p[2] = q[2] /\ (p[1] = q[1] + 1 \/ q[1] = p[1] + 1)

RefClusters(n, knowledge) ==
    LET hits   == {p \in Cells(n) : knowledge[p] = HIT}
        closed == {C \in SUBSET hits :
                      C # {} /\ \A p \in C, q \in hits \ C : ~Adjacent(p, q)}
    IN  {C \in closed : \A D \in closed : D \subseteq C => D = C}

RefCells(o, length, horizontal) ==
    {IF horizontal THEN <<o[1], o[2] + i>> ELSE <<o[1] + i, o[2]>> : i \in 0 .. length - 1}

RefConsistent(cells, length, horizontal, clusters) ==
    LET touched == {C \in clusters : C \cap cells # {}}
    IN  /\ Cardinality(touched) <= 1
        /\ \A C \in touched :
              /\ C \subseteq cells
              /\ Cardinality(C) <= length
              /\ (Cardinality(C) >= 2 /\ \A p, q \in C : p[1] = q[1]) => horizontal
              /\ (Cardinality(C) >= 2 /\ \A p, q \in C : p[2] = q[2]) => ~horizontal

\* The placements <<list entry, horizontal, origin>> that lie on the grid,
\* cover no MISS cell and are cluster-consistent.
RefPlacements(n, knowledge, ships) ==
    LET clusters == RefClusters(n, knowledge)
    IN  Strict(clusters,
          {pl \in (DOMAIN ships) \X BOOLEAN \X Cells(n) :
              LET cells == RefCells(pl[3], ships[pl[1]], pl[2])
              IN  /\ cells \subseteq Cells(n)
                  /\ \A p \in cells : knowledge[p] # MISS
                  /\ RefConsistent(cells, ships[pl[1]], pl[2], clusters)})

RefHeat(n, knowledge, ships) ==
    LET pls == RefPlacements(n, knowledge, ships)
    IN  Strict(pls,
          [p \in Cells(n) |->
              Cardinality({pl \in pls : p \in RefCells(pl[3], ships[pl[1]], pl[2])})])

\* The list handed to heatmap: the engine's own list when none is passed.
PassedShips == IF call.ships = None THEN ai.remaining_ships ELSE Val(call.ships)

\* C9: for every list passed to heatmap, the empty one included, the heat
\* after the placement loops is, cell by cell, the number of placements of
\* the list's entries that cover the cell, cover no MISS cell and are
\* cluster-consistent.
C9_BaseHeatCountsPassedList ==
    ret.op = "heatmap" => ret.base = RefHeat(ai.size, known, PassedShips)

\* C9, for the list heatmap works with (the engine's own list in place of an
\* empty or omitted argument): the heat after the placement loops is the
\* number of such placements.
C9_BaseHeatCountsUsedList ==
    ret.op = "heatmap" => ret.base = RefHeat(ai.size, known, HeatShips(ai, call.ships))

\* A placement that equals a two-cell cluster is counted, and the cell next
\* to the cluster on its line is covered by no placement of length 2.
C9_Witness ==
    /\ ret.op = "heatmap"
    /\ call.ships = Some(<<2>>)
    /\ known[<<0, 0>>] = HIT /\ known[<<0, 1>>] = HIT /\ known[<<0, 2>>] = UNKNOWN
    /\ Count(known, HIT) = 2
    /\ ret.base[<<0, 0>>] = 1 /\ ret.base[<<0, 1>>] = 1 /\ ret.base[<<0, 2>>] = 0

\* C10: with no HIT cell and every length of the list in use at least 2,
\* the returned heat of an odd-parity cell is its value after the boost
\* divided by 4 and rounded down, and that of an even-parity cell is
\* unchanged; with a HIT cell, or a length 1 in the list, the returned grid
\* is the grid after the boost; every returned value is an integer >= 0.
C10_ParityPruning ==
    ret.op = "heatmap"
      => LET ships  == HeatShips(ai, call.ships)
             anyhit == \E p \in Cells(ai.size) : known[p] = HIT
         IN  /\ (~anyhit /\ ships # <<>> /\ \A i \in DOMAIN ships : ships[i] >= 2)
                  => \A p \in Cells(ai.size) :
                        ret.heat[p] = IF (p[1] + p[2]) % 2 = 1
                                      THEN ret.boosted[p] \div 4 ELSE ret.boosted[p]
             /\ (anyhit \/ \E i \in DOMAIN ships : ships[i] = 1)
                  => ret.heat = ret.boosted
             /\ \A p \in Cells(ai.size) : ret.heat[p] \in Nat

\* An odd-parity cell scaled from 5 to 1 on a grid without HIT.
C10_Witness ==
    /\ ret.op = "heatmap"
    /\ \A p \in Cells(ai.size) : known[p] # HIT
    /\ HeatShips(ai, call.ships) = <<3, 2>>
    /\ \E p \in Cells(ai.size) :
          (p[1] + p[2]) % 2 = 1 /\ ret.boosted[p] = 5 /\ ret.heat[p] = 1

\* C11: scenario A.  On the 10 x 10 grid that is all UNKNOWN, with remaining
\* ships [5, 4, 3, 3, 2], choose_shot returns a cell of even parity whatever
\* the player's view of the AI board is.
C11_ScenarioAEvenParity ==
    (/\ ret.op = "choose_shot"
     /\ ai = [size |-> 10, remaining_ships |-> <<5, 4, 3, 3, 2>>]
     /\ \A p \in Cells(10) : known[p] = UNKNOWN)
      => (ret.shot[1] + ret.shot[2]) % 2 = 0

\* The scenario's shot chosen while the player has hit a cell of the AI board.
C11_Witness ==
    /\ ret.op = "choose_shot"
    /\ ai = [size |-> 10, remaining_ships |-> <<5, 4, 3, 3, 2>>]
    /\ \A p \in Cells(10) : known[p] = UNKNOWN
    /\ \E p \in Cells(10) : call.player_shots_on_ai_board[p] = HIT
    /\ InGrid(10, ret.shot)
    /\ (ret.shot[1] + ret.shot[2]) % 2 = 0

\* The cells of C12, written from its statement: the UNKNOWN neighbours of
\* the cells of a cluster that is a single cell or lies in no one row or
\* column, and the UNKNOWN cells one step beyond the two ends of a cluster of
\* two or more cells in one row or one column.
RefTargetsOf(n, knowledge, C) ==
    LET unknown == {q \in Cells(n) : knowledge[q] = UNKNOWN}
        inRow   == Cardinality(C) >= 2 /\ \A p, q \in C : p[1] = q[1]
        inCol   == Cardinality(C) >= 2 /\ \A p, q \in C : p[2] = q[2]
    IN  IF inRow
        THEN {q \in unknown : /\ \A p \in C : q[1] = p[1]
                              /\ \/ \A p \in C : q[2] <= p[2] - 1
                                 \/ \A p \in C : q[2] >= p[2] + 1
                              /\ \E p \in C : Adjacent(p, q)}
        ELSE IF inCol
        THEN {q \in unknown : /\ \A p \in C : q[2] = p[2]
                              /\ \/ \A p \in C : q[1] <= p[1] - 1
                                 \/ \A p \in C : q[1] >= p[1] + 1
                              /\ \E p \in C : Adjacent(p, q)}
        ELSE {q \in unknown : \E p \in C : Adjacent(p, q)}

RefTargets(n, knowledge) ==
    UNION {RefTargetsOf(n, knowledge, C) : C \in RefClusters(n, knowledge)}

\* C12: _target_candidates returns each of these cells exactly once and
\* nothing else; nothing when the grid holds no HIT; the four neighbours of a
\* lone HIT at (4, 4); and (4, 3), (4, 6) for HITs at (4, 4), (4, 5).
C12_TargetCandidates ==
    ret.op = "_target_candidates"
      => /\ Cardinality(Range(ret.cands)) = Len(ret.cands)
         /\ Range(ret.cands) = RefTargets(ai.size, known)
         /\ (\A p \in Cells(ai.size) : known[p] # HIT) => ret.cands = <<>>
         /\ known = ScenarioB
              => Range(ret.cands) = {<<3, 4>>, <<5, 4>>, <<4, 3>>, <<4, 5>>}
         /\ known = ScenarioC => Range(ret.cands) = {<<4, 3>>, <<4, 6>>}

\* Two HITs at the left end of the top row of a wider grid, all else
\* UNKNOWN: the one cell beyond the end is returned, not the cell after it
\* and not the cells below.
C12_Witness ==
    /\ ret.op = "_target_candidates"
    /\ ai.size = 4
    /\ known = GridOf(4, {<<0, 0>>, <<0, 1>>}, {})
    /\ ret.cands = <<<<0, 2>>>>

\* C13: notify_sunk(L) on a list holding L removes one occurrence of L and
\* leaves the other entries in their order; on a list not holding L (an
\* empty one, or one whose last L was removed before) it changes nothing.
WithoutEntry(s, i) == SubSeq(s, 1, i - 1) \o SubSeq(s, i + 1, Len(s))

C13_NotifySunkRemovesOne ==
    [][call'.op = "notify_sunk"
       => LET old == ai.remaining_ships
              new == ai'.remaining_ships
          IN  /\ ai'.size = ai.size
              /\ IF \E i \in DOMAIN old : old[i] = call'.length
                 THEN \E i \in DOMAIN old : old[i] = call'.length /\ new = WithoutEntry(old, i)
                 ELSE new = old]_vars

\* The only 2 of a list was removed, the notification came again and found
\* the list without it; another entry is still there.
C13_Witness ==
    /\ call.op = "notify_sunk"
    /\ reports = <<<<2, TRUE>>, <<2, FALSE>>>>
    /\ ai.remaining_ships = <<3>>

-----------------------------------------------------------------------------
(* Properties of the board specification.                                  *)

\* The arguments of the last call as a cell.
CallCell == <<call.r, call.c>>

\* C2: a receive_shot aimed outside the board, or at a cell that is already
\* HIT or MISS, returns hit = False and sunk_length = None and leaves the
\* grid, the ships and their hit counts as they were.  The step is taken from
\* every reachable state, so the same holds for each repetition of the call.
C2_RepeatedShotIsNoOp ==
    [][(call'.op = "receive_shot"
          /\ (~in_bounds(board, call'.r, call'.c)
                \/ board.grid[<<call'.r, call'.c>>] \in {HIT, MISS}))
       => (/\ ret'.hit = FALSE
           /\ ret'.sunk_length = None
           /\ board' = board)]_vars

\* A shot at a cell that already was HIT, on a ship that has taken a hit.
C2_Witness ==
    /\ call.op = "receive_shot"
    /\ in_bounds(board, call.r, call.c)
    /\ board.grid[CallCell] = HIT
    /\ ret.hit = FALSE
    /\ \E i \in DOMAIN board.ships :
          CallCell \in Range(board.ships[i].cells) /\ board.ships[i].hits = 1
                                                   /\ board.ships[i].length = 2

\* C3: each ship is reported sunk exactly once.  reports[i] lists the
\* sunk_length values receive_shot returned for shots at ship i; it is empty
\* as long as the ship has fewer hits than cells and is exactly <<length>>
\* from the shot that makes hits = length on.
C3_SunkReportedOnce ==
    /\ Len(reports) = Len(board.ships)
    /\ \A i \in DOMAIN board.ships :
          reports[i] = IF board.ships[i].hits = board.ships[i].length
                       THEN <<board.ships[i].length>> ELSE <<>>

\* A further shot at a cell of a two-cell ship that was already reported.
C3_Witness ==
    /\ call.op = "receive_shot"
    /\ in_bounds(board, call.r, call.c)
    /\ ret.hit = FALSE
    /\ ret.sunk_length = None
    /\ \E i \in DOMAIN board.ships :
          /\ CallCell \in Range(board.ships[i].cells)
          /\ board.ships[i].length = 2
          /\ board.ships[i].hits = 2
          /\ reports[i] = <<2>>

\* C4: all_ships_sunk, and the game_over flag of every receive_shot, are true
\* exactly when the board holds at least one ship and every ship's hits
\* equals its length.
AllHitsEqualLength(b) ==
    Len(b.ships) >= 1 /\ \A i \in DOMAIN b.ships : b.ships[i].hits = b.ships[i].length

C4_GameOverIffAllSunk ==
    /\ all_ships_sunk(board) = AllHitsEqualLength(board)
    /\ ret.op = "receive_shot" => ret.game_over = AllHitsEqualLength(board)

\* The shot that sinks the last of two ships.
C4_Witness ==
    /\ call.op = "receive_shot"
    /\ ret.game_over = TRUE
    /\ ret.sunk_length # None
    /\ Len(board.ships) = 2

\* C5: over place_ship and receive_shot calls a cell that is HIT or MISS keeps
\* its value, and a shot turns an EMPTY cell into MISS and a SHIP cell into
\* HIT, never anything else.
C5_CellsMonotone ==
    [][call'.op \in {"place_ship", "receive_shot"}
       => \A p \in Cells(board.size) :
             /\ board.grid[p] \in {HIT, MISS} => board'.grid[p] = board.grid[p]
             /\ (call'.op = "receive_shot" /\ p = <<call'.r, call'.c>>)
                  => /\ board.grid[p] = EMPTY => board'.grid[p] = MISS
                     /\ board.grid[p] = SHIP => board'.grid[p] = HIT
             /\ (call'.op = "receive_shot" /\ p # <<call'.r, call'.c>>)
                  => board'.grid[p] = board.grid[p]]_vars

\* A ship placed on a board that already holds a HIT and a MISS cell.
C5_Witness ==
    /\ call.op = "place_ship"
    /\ ret.ok = TRUE
    /\ \E p \in Cells(board.size) : board.grid[p] = HIT
    /\ \E p \in Cells(board.size) : board.grid[p] = MISS

\* C6: the board is structurally consistent: the ships' cells are in bounds
\* and pairwise disjoint, each ship has as many distinct cells as its length,
\* the cells holding SHIP or HIT are exactly the cells of the ships, each
\* ship's hits is the number of its cells holding HIT, and total_ship_cells
\* is the sum of the ships' lengths.
RECURSIVE SumLengths(_, _)
SumLengths(ships, i) ==
    IF i > Len(ships) THEN 0 ELSE ships[i].length + SumLengths(ships, i + 1)

C6_StructurallyConsistent ==
    /\ \A i \in DOMAIN board.ships :
          LET s == board.ships[i]
          IN  /\ Len(s.cells) = s.length
              /\ Cardinality(Range(s.cells)) = s.length
              /\ \A p \in Range(s.cells) : in_bounds(board, p[1], p[2])
              /\ s.hits = Cardinality({p \in Range(s.cells) : board.grid[p] = HIT})
              /\ \A j \in DOMAIN board.ships :
                    i # j => Range(s.cells) \cap Range(board.ships[j].cells) = {}
    /\ {p \in Cells(board.size) : board.grid[p] \in {SHIP, HIT}}
          = UNION {Range(board.ships[i].cells) : i \in DOMAIN board.ships}
    /\ board.total_ship_cells = SumLengths(board.ships, 1)

\* The state right after random_place_all placed a ship of one cell and a
\* ship of two cells.
C6_Witness ==
    /\ call.op = "random_place_all"
    /\ ret.err = "none"
    /\ Len(board.ships) = 2
    /\ board.total_ship_cells = 3

\* C7: after a place_ship that returned True, can_place on the same region is
\* False; a place_ship that returned False left the grid, the ships and
\* total_ship_cells unchanged.
C7_PlaceShipEffect ==
    [][call'.op = "place_ship"
       => IF ret'.ok
          THEN ~can_place(board', call'.r, call'.c, call'.length, call'.horizontal)
          ELSE board' = board]_vars

\* A placement refused because it overlaps a ship, on a board holding one.
C7_Witness ==
    /\ call.op = "place_ship"
    /\ ret.ok = FALSE
    /\ Len(board.ships) = 1
    /\ in_bounds(board, call.r, call.c)
    /\ board.grid[CallCell] = SHIP

\* C8: get_ai_knowledge shows HIT for HIT, MISS for MISS and UNKNOWN for every
\* other cell, returns the same view for every board whose HIT cells and MISS
\* cells are those of this board (whatever its ships and its other cells),
\* and leaves the board unchanged.
SameShots(g1, g2) ==
    \A p \in DOMAIN g1 : /\ g1[p] = HIT <=> g2[p] = HIT
                         /\ g1[p] = MISS <=> g2[p] = MISS

C8_KnowledgeLeaksNothing ==
    [][call'.op = "get_ai_knowledge"
       => /\ board' = board
          /\ \A p \in Cells(board.size) :
                ret'.view[p] = IF board.grid[p] \in {HIT, MISS}
                               THEN board.grid[p] ELSE UNKNOWN
          /\ \A g2 \in [Cells(board.size) -> {EMPTY, SHIP, HIT, MISS}] :
                SameShots(board.grid, g2)
                  => /\ get_ai_knowledge([board EXCEPT !.grid = g2]) = ret'.view
                     /\ get_ai_knowledge([board EXCEPT !.grid = g2, !.ships = <<>>])
                          = ret'.view]_vars

\* The view of a board holding an unhit SHIP cell, a HIT cell and a MISS cell.
C8_Witness ==
    /\ call.op = "get_ai_knowledge"
    /\ \E p \in Cells(board.size) : board.grid[p] = SHIP /\ ret.view[p] = UNKNOWN
    /\ \E p \in Cells(board.size) : board.grid[p] = HIT /\ ret.view[p] = HIT
    /\ \E p \in Cells(board.size) : board.grid[p] = MISS /\ ret.view[p] = MISS

\* A list of lengths fits the board's capacity when every length is between
\* 1 and the side and the lengths sum to at most the number of cells.
FitsCapacity(n, lens) ==
    /\ \A i \in DOMAIN lens : 1 <= lens[i] /\ lens[i] <= n
    /\ SumFrom(lens, [i \in DOMAIN lens |-> i], 1) <= n * n

\* C14: for a list of lengths that fits the board's capacity random_place_all
\* raises nothing and ends with every length of the list placed, whatever is
\* drawn.
C14_FittingFleetAlwaysPlaced ==
    (ret.op = "random_place_all" /\ FitsCapacity(board.size, Val(call.ships)))
      => /\ ret.err = "none"
         /\ [i \in DOMAIN board.ships |-> board.ships[i].length] = Val(call.ships)

\* [1, 1, 2] on the 2 x 2 board: the one-cell ships were drawn onto a
\* diagonal, no region of two cells is left in either orientation, and the
\* call raised RuntimeError.
C14_Witness ==
    /\ ret.op = "random_place_all"
    /\ call.ships = Some(<<1, 1, 2>>)
    /\ FitsCapacity(board.size, Val(call.ships))
    /\ ret.err = "RuntimeError"
    /\ Len(board.ships) = 2
    /\ \A t \in RandomDraws(board, 2) : ~can_place(board, t[2], t[3], 2, t[1])

-----------------------------------------------------------------------------
(* Properties of the game.                                                 *)

Occurrences(seq, x) == Cardinality({i \in DOMAIN seq : seq[i] = x})

SameMultiset(a, b) ==
    \A x \in Range(a) \cup Range(b) : Occurrences(a, x) = Occurrences(b, x)

\* The length of the player's ship the step's AI shot sank (None: the step
\* was no AI shot, or the shot sank nothing).
AiSank ==
    IF ret'.op = "update" /\ ret'.shot # None
    THEN receive_shot(game.player_board, Val(ret'.shot)[1], Val(ret'.shot)[2]).sunk_length
    ELSE None

\* C15: in every step of a game notify_sunk(L) is invoked exactly when the
\* step is a shot of the AI that sinks a ship of length L of the player's
\* board, and after the step the AI's remaining_ships holds the lengths of
\* the unsunk ships of the player's board, as a multiset.
C15_NotifySunkTracksPlayerFleet ==
    [][/\ ret'.notified = AiSank
       /\ SameMultiset(game'.ai.remaining_ships, UnsunkLengths(game'.player_board))]_vars

\* What the list holds instead: the lengths of the unsunk ships of the AI's
\* own board.
C15_ListTracksAiFleet ==
    game.ai.remaining_ships = UnsunkLengths(game.ai_board)

\* The player sank the AI's ship of length 1: notify_sunk(1) was called and
\* the AI's list is [2], with both ships of the player's board afloat.
C15_Witness ==
    /\ ret.op = "handle_player_shot"
    /\ ret.notified = Some(1)
    /\ game.state = "player_turn"
    /\ game.ai.remaining_ships = <<2>>
    /\ UnsunkLengths(game.player_board) = <<2, 1>>

\* The cells of b that are shot in b2 and were not in b.
NewlyShot(b, b2) ==
    {p \in Cells(b.size) : b.grid[p] \notin {HIT, MISS} /\ b2.grid[p] \in {HIT, MISS}}

FleetSunk(b) ==
    b.ships # <<>> /\ \A i \in DOMAIN b.ships : sunk(b.ships[i])

\* The state and the winner after a shot of `side` at cell p that left the
\* target board as b2.
AfterShot(b2, p, side, other) ==
    IF FleetSunk(b2) THEN <<"game_over", Some(side)>>
    ELSE IF b2.grid[p] = HIT THEN <<IF side = "Player" THEN "player_turn" ELSE "ai_turn", None>>
    ELSE <<other, None>>

\* C16: in every step of the game loop, a cell of the AI's board is shot
\* only in state player_turn and a cell of the player's board only in state
\* ai_turn, one cell of one board at a time; after a shot the state is
\* game_over with the shooter as winner iff every ship of the target board
\* is sunk, otherwise the shooter's own turn after a hit and the other
\* side's turn after a miss; without a shot the state changes only from
\* ready to player_turn or by reset, and game_over is left only by reset.
C16_TurnProtocol ==
    [][LET pa == NewlyShot(game.ai_board, game'.ai_board)
           pp == NewlyShot(game.player_board, game'.player_board)
       IN  /\ pa # {} => /\ game.state = "player_turn"
                         /\ Cardinality(pa) = 1 /\ pp = {}
                         /\ \A p \in pa :
                               <<game'.state, game'.winner>> =
                                 AfterShot(game'.ai_board, p, "Player", "ai_turn")
           /\ pp # {} => /\ game.state = "ai_turn"
                         /\ Cardinality(pp) = 1 /\ pa = {}
                         /\ \A p \in pp :
                               <<game'.state, game'.winner>> =
                                 AfterShot(game'.player_board, p, "AI", "player_turn")
           /\ (pa = {} /\ pp = {} /\ game'.state # game.state)
                 => \/ game.state = "ready" /\ game'.state = "player_turn"
                    \/ call'.op = "reset" /\ game'.state = "ready"
           /\ (game.state = "game_over" /\ game'.state # "game_over")
                 => call'.op = "reset"
           /\ game.state \in {"ready", "game_over"}
                 => /\ game'.state = game.state \/ call'.op \in {"start", "reset"}
                    /\ pa = {} /\ pp = {}]_vars

\* Both sides have shot: the player missed, the AI hit, shot again and
\* missed, and the player then won.
C16_Witness ==
    /\ game.state = "game_over"
    /\ game.winner = Some("Player")
    /\ \E p \in Cells(GameSize) : game.player_board.grid[p] = HIT
    /\ \E p \in Cells(GameSize) : game.player_board.grid[p] = MISS
    /\ \E p \in Cells(GameSize) : game.ai_board.grid[p] = MISS

\* C17: whenever a step of the game takes the AI's shot, the state is
\* ai_turn, the player's board still has an unresolved cell (so choose_shot
\* does not end in `return 0, 0`), the cell choose_shot returned is on the
\* board and neither HIT nor MISS there, and it is the one cell of the
\* player's board the step resolves.
C17_AiShotIsValid ==
    [][(ret'.op = "update" /\ ret'.shot # None)
         => LET p == Val(ret'.shot)
                k == get_ai_knowledge(game.player_board)
            IN  /\ game.state = "ai_turn"
                /\ \E q \in Cells(GameSize) : k[q] = UNKNOWN
                /\ p \in Cells(GameSize)
                /\ game.player_board.grid[p] \notin {HIT, MISS}
                /\ NewlyShot(game.player_board, game'.player_board) = {p}]_vars

\* The AI's second shot in a row: a cell of the player's board was resolved
\* before it, and it hit without ending the game.
C17_Witness ==
    /\ ret.op = "update"
    /\ ret.shot # None
    /\ game.state = "ai_turn"
    /\ game.player_board.grid[Val(ret.shot)] = HIT
    /\ Cardinality({p \in Cells(GameSize) :
                      game.player_board.grid[p] \in {HIT, MISS}}) = 2

\* C18: a started game that is not reset ends: from player_turn or ai_turn
\* the state becomes game_over with a winner, and every step in which a
\* shot is applied resolves exactly one cell of one of the two boards, so
\* each board takes at most size * size shots.
C18_GameTerminates ==
    /\ (game.state \in {"player_turn", "ai_turn"})
          ~> (game.state = "game_over" /\ game.winner # None)
    /\ [][ret'.shot # None
            => Cardinality(NewlyShot(game.ai_board, game'.ai_board))
               + Cardinality(NewlyShot(game.player_board, game'.player_board)) = 1]_vars

\* The AI won a game in which the player missed once and the AI, shooting
\* after a cooldown, hit with every shot.
C18_Witness ==
    /\ game.state = "game_over"
    /\ game.winner = Some("AI")
    /\ ret.op = "update"
    /\ \E p \in Cells(GameSize) : game.ai_board.grid[p] = MISS
    /\ \A i \in DOMAIN game.player_board.ships : sunk(game.player_board.ships[i])

====
